---- MODULE Spec2Model ----
(***************************************************************************)
(* Model of hyprnote's application-level encryption: the KeyManager of     *)
(* crates/encryption (key_manager.rs) and the unlock / lock / status /     *)
(* change_password coordinator of plugins/encryption (ext.rs, commands.rs, *)
(* store.rs), with the salt file the coordinator reads and writes.         *)
(*                                                                         *)
(* Values.  A password is a number 0..MaxPw, 0 being the empty string.     *)
(* A salt string is a number: 1..MaxSalts are the strings SaltString::     *)
(* generate produces (22 printable characters, each drawn once), and       *)
(* EmptyStr is the empty string, which is what the salt file holds when    *)
(* fs::write created (truncated) it and then failed to write.  A key is a  *)
(* number >= 1; ZeroBytes stands for 32 zero bytes.  Option<T> is a        *)
(* sequence of length 0 (None) or 1 (Some).                                *)
(***************************************************************************)
EXTENDS Integers, Sequences, FiniteSets, TLC

\* ---------------------------------------------------------------- bounds
MaxPw == 2
MaxSalts == 2
MaxThreads == 2
MaxKey == 2
MaxLen == 2
MaxByte == 1
MaxNonce == 1
MaxCalls == 2

Passwords == 0..MaxPw
Salts == 1..MaxSalts
Threads == 1..MaxThreads

\* ---------------------------------------------------------------- values
EmptyStr == 0
ZeroBytes == 0

None == <<>>
Some(x) == <<x>>
IsSome(o) == o # None
Unwrap(o) == o[1]

is_empty(s) == s = EmptyStr

VARIABLES
    key_manager,  \* EncryptionState.key_manager: [key, salt], both Option
    salt_file,    \* the encryption_salt file: None (missing) or Some(content)
    rng,          \* how many salts OsRng has produced so far
    released,     \* bytes left in the storage of the SecureKey the last step dropped
    unsaved,      \* salts unlock_app generated that save_salt has not written
    origin,       \* the session that created the salt file: [pw, salt, key]
    locked,       \* lock / clear_key ran and no derive_key has succeeded since
    installed,    \* the key the last successful derive_key computed, until
                  \* clear_key or the manager's drop
    held,         \* the copy of the key a caller got from get_key
    last,         \* the call that returned last: [op, pw, npw, f, pre, res, at]
                  \* (pre: key, salt and salt file when it was made)
    mutex,        \* the threads holding the lock of Mutex<KeyManager>
    pc,           \* per thread: the statement it is at
    frame,        \* per thread: its call's arguments, locals and result
    rwlock,       \* KeyManager.key's RwLock: the threads holding it to
                  \* read and the thread holding it to write
    seen,         \* per thread: what its last state() / get_key() read
    codec,        \* a use of the codec of crypto.rs: its arguments, the
                  \* blob and the last result
    fstate        \* the files the helpers of file_crypto.rs work on and the
                  \* call of a helper that returned last

vars == <<key_manager, salt_file, rng, released, unsaved, origin, locked,
          installed, held, last, mutex, pc, frame, rwlock, seen, codec,
          fstate>>

\* What the handlers and the KeyManager's methods (called by one thread at a
\* time) leave alone.
apart == <<rwlock, seen, codec, fstate>>

\* The part of the state the handlers read and write.
\* derived: a derive_key of the running call has returned Ok.
World == [km |-> key_manager, file |-> salt_file, rng |-> rng,
          released |-> None, unsaved |-> unsaved, derived |-> FALSE]

\* ------------------------------------------------------------ KeyDerivation
\* Argon2id(19456 KiB, 2, 1) -> 32 bytes: deterministic in (password, salt)
\* and, as a hash, taken to be collision-free; never all zero.
Argon2id(password, salt) == password * (MaxSalts + 1) + salt
SaltOf(key) == key % (MaxSalts + 1)
PasswordOf(key) == key \div (MaxSalts + 1)

\* argon2.hash_password_into(password, salt, out)?: the library rejects a
\* salt shorter than 8 bytes (the empty string); kdf = "err" is any other
\* Err the call (or Params::new) returns.  Every password length from 0 is
\* accepted.
hash_password_into(password, salt, kdf) ==
    IF kdf = "err" \/ is_empty(salt)
    THEN [ok |-> FALSE, key |-> ZeroBytes]
    ELSE [ok |-> TRUE, key |-> Argon2id(password, salt)]

\* ------------------------------------------------------------ SecureKey
\* #[derive(Zeroize, ZeroizeOnDrop)] with #[zeroize(skip)] on the only
\* field: what drop leaves in the key's 32 bytes.
SecureKey_drop(key) == key

\* `*self.key.write().unwrap() = value`: the old Option<SecureKey> is dropped.
store_key(w, value) ==
    [w EXCEPT !.km.key = value,
              !.released = IF IsSome(w.km.key)
                           THEN Some(SecureKey_drop(Unwrap(w.km.key)))
                           ELSE w.released]

\* ------------------------------------------------------------ KeyManager
KeyManager_new == [key |-> None, salt |-> None]

state(km) == IF IsSome(km.key) THEN "Available" ELSE "Unavailable"

set_salt(w, salt) == [w EXCEPT !.km.salt = Some(salt)]

salt_of(km) == km.salt

\* (mutant) the salt in use is handed out again.
generate_salt_reuses(w) ==
    IF IsSome(w.km.salt) THEN [w |-> w, salt |-> Unwrap(w.km.salt)]
    ELSE [w |-> [w EXCEPT !.km.salt = Some(w.rng + 1), !.rng = w.rng + 1],
          salt |-> w.rng + 1]

\* SaltString::generate(&mut OsRng): a string not produced before.
generate_salt(w) ==
    [w |-> [w EXCEPT !.km.salt = Some(w.rng + 1), !.rng = w.rng + 1],
     salt |-> w.rng + 1]

\* (mutant) the buffer is stored whatever hash_password_into returned.
derive_key_stores_on_error(w, password, kdf) ==
    LET w1 == IF IsSome(w.km.salt) THEN w ELSE generate_salt(w).w
        h == hash_password_into(password, Unwrap(w1.km.salt), kdf)
    IN  [w |-> [store_key(w1, Some(h.key)) EXCEPT !.derived = h.ok],
         res |-> IF h.ok THEN "Ok" ELSE "KeyDerivation"]

\* (mutant) a salt is generated on every call.
derive_key_regenerates(w, password, kdf) ==
    LET w1 == generate_salt(w).w
        h == hash_password_into(password, Unwrap(w1.km.salt), kdf)
    IN  IF h.ok
        THEN [w |-> [store_key(w1, Some(h.key)) EXCEPT !.derived = TRUE],
              res |-> "Ok"]
        ELSE [w |-> w1, res |-> "KeyDerivation"]

derive_key(w, password, kdf) ==
    LET w1 == IF IsSome(w.km.salt) THEN w ELSE generate_salt(w).w
        h == hash_password_into(password, Unwrap(w1.km.salt), kdf)
    IN  IF h.ok
        THEN [w |-> [store_key(w1, Some(h.key)) EXCEPT !.derived = TRUE],
              res |-> "Ok"]
        ELSE [w |-> w1, res |-> "KeyDerivation"]

\* (mutant) no key: the default array instead of the error.
get_key_or_default(km) ==
    IF IsSome(km.key)
    THEN [res |-> "Ok", key |-> Some(Unwrap(km.key))]
    ELSE [res |-> "Ok", key |-> Some(ZeroBytes)]

get_key(km) ==
    IF IsSome(km.key)
    THEN [res |-> "Ok", key |-> Some(Unwrap(km.key))]
    ELSE [res |-> "KeyNotAvailable", key |-> None]

\* (mutant) the key is left in place.
clear_key_noop(w) == w

clear_key(w) == store_key(w, None)

\* ------------------------------------------------------------ crypto.rs
\* Byte strings are sequences of 0..255.  A key slice is [len, id]: its
\* length and which key it is (the number KeyManager holds for it).
IV_SIZE == 12
TAG_SIZE == 16
KEY_SIZE == 32

Key32(k) == [len |-> KEY_SIZE, id |-> k]

RECURSIVE Xor(_, _)
Xor(a, b) ==
    IF a = 0 THEN b
    ELSE IF b = 0 THEN a
    ELSE ((a + b) % 2) + 2 * Xor(a \div 2, b \div 2)

\* AES-256-GCM of the aes_gcm crate, as a stand-in with its shape: a
\* counter-mode keystream from (key, nonce) and a 16-byte tag that depends
\* on the key, every byte of the nonce, the ciphertext, its length and the
\* associated data.  The stand-in's tag tells apart any two inputs that
\* differ in the key, in the associated data or in a single byte, which is
\* what AES-GCM guarantees up to forgery; messages and associated data stay
\* shorter than IV_SIZE here.
KeyByte(key) == key.id % 256

Keystream(key, nonce, i) ==
    Xor(KeyByte(key), Xor(nonce[((i - 1) % IV_SIZE) + 1], i % 256))

CtrXor(key, nonce, data) ==
    [i \in 1..Len(data) |-> Xor(data[i], Keystream(key, nonce, i))]

ByteAt(s, i) == IF i <= Len(s) THEN s[i] ELSE 0

GcmTag(key, nonce, ct, aad) ==
    [i \in 1..TAG_SIZE |->
        IF i <= IV_SIZE
        THEN Xor(Xor(KeyByte(key), nonce[i]), Xor(ByteAt(ct, i), i))
        ELSE IF i = IV_SIZE + 1 THEN Xor(KeyByte(key), Len(ct))
        ELSE IF i = IV_SIZE + 2 THEN Xor(KeyByte(key), Len(aad))
        ELSE Xor(KeyByte(key), ByteAt(aad, i - IV_SIZE - 2))]

\* Aes256Gcm::new_from_slice(key): Err unless the slice has 32 bytes.
new_from_slice(key) == key.len = KEY_SIZE

\* cipher.encrypt(nonce, Payload { msg, aad }): ciphertext || tag.
cipher_encrypt(key, nonce, msg, aad) ==
    LET ct == CtrXor(key, nonce, msg)
    IN  ct \o GcmTag(key, nonce, ct, aad)

\* (mutant) the tag is not compared.
cipher_decrypt_unchecked(key, nonce, data, aad) ==
    IF Len(data) < TAG_SIZE THEN [ok |-> FALSE, msg |-> <<>>]
    ELSE [ok |-> TRUE,
          msg |-> CtrXor(key, nonce, SubSeq(data, 1, Len(data) - TAG_SIZE))]

\* cipher.decrypt(nonce, Payload { msg, aad }): Err when the input is
\* shorter than a tag or the tag is not the one of (key, nonce, ct, aad).
cipher_decrypt(key, nonce, data, aad) ==
    IF Len(data) < TAG_SIZE THEN [ok |-> FALSE, msg |-> <<>>]
    ELSE LET ct == SubSeq(data, 1, Len(data) - TAG_SIZE)
             tag == SubSeq(data, Len(data) - TAG_SIZE + 1, Len(data))
         IN  IF tag = GcmTag(key, nonce, ct, aad)
             THEN [ok |-> TRUE, msg |-> CtrXor(key, nonce, ct)]
             ELSE [ok |-> FALSE, msg |-> <<>>]

\* EncryptionError::Decryption(String) with the message of the length check
\* (the spec's DataTooShort) and, in db_crypto.rs, of the UTF-8 check (the
\* spec's InvalidUtf8); the variant is also that of an invalid key length.
DataTooShort == "Decryption(Data too short)"
InvalidUtf8 == "Decryption(Invalid UTF-8)"

\* (mutant) the nonce is the zeroed buffer, the random bytes are not used.
encrypt_bytes_with_aad_zero_iv(key, plaintext, aad, iv) ==
    LET zero == [i \in 1..IV_SIZE |-> ZeroBytes]
    IN  IF ~new_from_slice(key)
        THEN [res |-> "Encryption(Invalid key length)", data |-> <<>>]
        ELSE [res |-> "Ok",
              data |-> zero \o cipher_encrypt(key, zero, plaintext, aad)]

\* iv is what OsRng.fill_bytes put into the 12 bytes.
encrypt_bytes_with_aad(key, plaintext, aad, iv) ==
    IF ~new_from_slice(key)
    THEN [res |-> "Encryption(Invalid key length)", data |-> <<>>]
    ELSE [res |-> "Ok", data |-> iv \o cipher_encrypt(key, iv, plaintext, aad)]

\* (mutant) a version byte precedes the nonce.
encrypt_bytes_with_header(key, plaintext, iv) ==
    IF ~new_from_slice(key)
    THEN [res |-> "Encryption(Invalid key length)", data |-> <<>>]
    ELSE [res |-> "Ok",
          data |-> <<1>> \o iv \o cipher_encrypt(key, iv, plaintext, <<>>)]

encrypt_bytes(key, plaintext, iv) ==
    IF ~new_from_slice(key)
    THEN [res |-> "Encryption(Invalid key length)", data |-> <<>>]
    ELSE [res |-> "Ok",
          data |-> iv \o cipher_encrypt(key, iv, plaintext, <<>>)]

\* (mutant) the associated data is not passed to the cipher.
decrypt_bytes_with_aad_ignored(key, data, aad) ==
    IF Len(data) <= IV_SIZE
    THEN [res |-> DataTooShort, data |-> <<>>]
    ELSE IF ~new_from_slice(key)
    THEN [res |-> "Decryption(Invalid key length)", data |-> <<>>]
    ELSE LET iv == SubSeq(data, 1, IV_SIZE)
             ciphertext == SubSeq(data, IV_SIZE + 1, Len(data))
             d == cipher_decrypt(key, iv, ciphertext, <<>>)
         IN  IF d.ok THEN [res |-> "Ok", data |-> d.msg]
             ELSE [res |-> "AeadError", data |-> <<>>]

decrypt_bytes_with_aad(key, data, aad) ==
    IF Len(data) <= IV_SIZE
    THEN [res |-> DataTooShort, data |-> <<>>]
    ELSE IF ~new_from_slice(key)
    THEN [res |-> "Decryption(Invalid key length)", data |-> <<>>]
    ELSE LET iv == SubSeq(data, 1, IV_SIZE)
             ciphertext == SubSeq(data, IV_SIZE + 1, Len(data))
             d == cipher_decrypt(key, iv, ciphertext, aad)
         IN  IF d.ok THEN [res |-> "Ok", data |-> d.msg]
             ELSE [res |-> "AeadError", data |-> <<>>]

\* (mutant) the first 12 bytes are taken for the nonce and left in the
\* ciphertext.
decrypt_bytes_keeps_iv(key, data) ==
    IF Len(data) <= IV_SIZE
    THEN [res |-> DataTooShort, data |-> <<>>]
    ELSE IF ~new_from_slice(key)
    THEN [res |-> "Decryption(Invalid key length)", data |-> <<>>]
    ELSE LET iv == SubSeq(data, 1, IV_SIZE)
             d == cipher_decrypt(key, iv, data, <<>>)
         IN  IF d.ok THEN [res |-> "Ok", data |-> d.msg]
             ELSE [res |-> "AeadError", data |-> <<>>]

\* (mutant) the cipher is initialised before the length is looked at.
decrypt_bytes_key_first(key, data) ==
    IF ~new_from_slice(key)
    THEN [res |-> "Decryption(Invalid key length)", data |-> <<>>]
    ELSE IF Len(data) <= IV_SIZE
    THEN [res |-> DataTooShort, data |-> <<>>]
    ELSE LET iv == SubSeq(data, 1, IV_SIZE)
             ciphertext == SubSeq(data, IV_SIZE + 1, Len(data))
             d == cipher_decrypt(key, iv, ciphertext, <<>>)
         IN  IF d.ok THEN [res |-> "Ok", data |-> d.msg]
             ELSE [res |-> "AeadError", data |-> <<>>]

decrypt_bytes(key, data) ==
    IF Len(data) <= IV_SIZE
    THEN [res |-> DataTooShort, data |-> <<>>]
    ELSE IF ~new_from_slice(key)
    THEN [res |-> "Decryption(Invalid key length)", data |-> <<>>]
    ELSE LET iv == SubSeq(data, 1, IV_SIZE)
             ciphertext == SubSeq(data, IV_SIZE + 1, Len(data))
             d == cipher_decrypt(key, iv, ciphertext, <<>>)
         IN  IF d.ok THEN [res |-> "Ok", data |-> d.msg]
             ELSE [res |-> "AeadError", data |-> <<>>]

\* ------------------------------------------------------------ db_crypto.rs

\* A UTF-8 continuation byte within lo..hi.
Cont(s, i, lo, hi) == i <= Len(s) /\ s[i] >= lo /\ s[i] <= hi

\* String::from_utf8 accepts s: every sequence is one of the well-formed
\* ones (no overlong form, no surrogate, nothing above U+10FFFF).
RECURSIVE IsUtf8(_)
IsUtf8(s) ==
    IF s = <<>> THEN TRUE
    ELSE LET b == s[1]
             n == IF b < 128 THEN 1
                  ELSE IF b >= 194 /\ b <= 223 THEN 2
                  ELSE IF b >= 224 /\ b <= 239 THEN 3
                  ELSE IF b >= 240 /\ b <= 244 THEN 4
                  ELSE 0
             lo == IF b = 224 THEN 160 ELSE IF b = 240 THEN 144 ELSE 128
             hi == IF b = 237 THEN 159 ELSE IF b = 244 THEN 143 ELSE 191
         IN  /\ n > 0
             /\ n >= 2 => Cont(s, 2, lo, hi)
             /\ n >= 3 => Cont(s, 3, 128, 191)
             /\ n >= 4 => Cont(s, 4, 128, 191)
             /\ IsUtf8(SubSeq(s, n + 1, Len(s)))

\* value is a &str: its bytes are UTF-8.
encrypt_field(key, value, iv) == encrypt_bytes(key, value, iv)

\* (mutant) the bytes are deciphered and read as a string without the tag
\* being compared.
decrypt_field_unauthenticated(key, data) ==
    IF Len(data) <= IV_SIZE
    THEN [res |-> DataTooShort, data |-> <<>>]
    ELSE IF ~new_from_slice(key)
    THEN [res |-> "Decryption(Invalid key length)", data |-> <<>>]
    ELSE LET d == cipher_decrypt_unchecked(key, SubSeq(data, 1, IV_SIZE),
                      SubSeq(data, IV_SIZE + 1, Len(data)), <<>>)
         IN  IF ~d.ok THEN [res |-> "AeadError", data |-> <<>>]
             ELSE IF IsUtf8(d.msg) THEN [res |-> "Ok", data |-> d.msg]
             ELSE [res |-> InvalidUtf8, data |-> <<>>]

decrypt_field(key, data) ==
    LET plaintext == decrypt_bytes(key, data)
    IN  IF plaintext.res # "Ok" THEN plaintext
        ELSE IF IsUtf8(plaintext.data)
        THEN [res |-> "Ok", data |-> plaintext.data]
        ELSE [res |-> InvalidUtf8, data |-> <<>>]

\* ------------------------------------------------------------ file_crypto.rs

\* What the environment does to the std::fs calls of a helper: nothing,
\* fs::read fails, fs::write fails to create or truncate the file, fs::write
\* fails after it truncated the file and wrote the first `kept` bytes.
FileFaults == {"ok", "read", "open", "write"}

Min(a, b) == IF a < b THEN a ELSE b

\* fs::read(path): Err when the file is missing or cannot be read.
fs_read(files, path, fault) ==
    IF files[path] = None \/ fault = "read"
    THEN [ok |-> FALSE, data |-> <<>>]
    ELSE [ok |-> TRUE, data |-> Unwrap(files[path])]

\* fs::write(path, data): creates or truncates the file, then writes.
fs_write(files, path, data, fault, kept) ==
    IF fault = "open" THEN [ok |-> FALSE, files |-> files]
    ELSE IF fault = "write"
    THEN [ok |-> FALSE,
          files |-> [files EXCEPT
                        ![path] = Some(SubSeq(data, 1, Min(kept, Len(data))))]]
    ELSE [ok |-> TRUE, files |-> [files EXCEPT ![path] = Some(data)]]

\* What a helper returns: its Result, the files as it leaves them, the
\* bytes it returns (decrypt_file_to_memory) and the step it returned at.
FileRet(res, files, data, at) ==
    [res |-> res, files |-> files, data |-> data, at |-> at]

\* (mutant) the ciphertext is written over the input file.
encrypt_file_in_place(files, key, input_path, output_path, iv, fault, kept) ==
    LET plaintext == fs_read(files, input_path, fault)
    IN  IF ~plaintext.ok THEN FileRet("FileOperation", files, <<>>, "read")
        ELSE LET encrypted == encrypt_bytes(key, plaintext.data, iv)
             IN  IF encrypted.res # "Ok"
                 THEN FileRet(encrypted.res, files, <<>>, "codec")
                 ELSE LET w == fs_write(files, input_path, encrypted.data,
                                        fault, kept)
                      IN  IF w.ok THEN FileRet("Ok", w.files, <<>>, "")
                          ELSE FileRet("FileOperation", w.files, <<>>,
                                       "write")

encrypt_file(files, key, input_path, output_path, iv, fault, kept) ==
    LET plaintext == fs_read(files, input_path, fault)
    IN  IF ~plaintext.ok THEN FileRet("FileOperation", files, <<>>, "read")
        ELSE LET encrypted == encrypt_bytes(key, plaintext.data, iv)
             IN  IF encrypted.res # "Ok"
                 THEN FileRet(encrypted.res, files, <<>>, "codec")
                 ELSE LET w == fs_write(files, output_path, encrypted.data,
                                        fault, kept)
                      IN  IF w.ok THEN FileRet("Ok", w.files, <<>>, "")
                          ELSE FileRet("FileOperation", w.files, <<>>,
                                       "write")

\* (mutant) the output file is created before the input is read and
\* authenticated.
decrypt_file_creates_first(files, key, input_path, output_path, fault, kept) ==
    LET created == [files EXCEPT ![output_path] = Some(<<>>)]
        encrypted == fs_read(files, input_path, fault)
    IN  IF ~encrypted.ok
        THEN FileRet("FileOperation", created, <<>>, "read")
        ELSE LET plaintext == decrypt_bytes(key, encrypted.data)
             IN  IF plaintext.res # "Ok"
                 THEN FileRet(plaintext.res, created, <<>>, "codec")
                 ELSE LET w == fs_write(created, output_path, plaintext.data,
                                        fault, kept)
                      IN  IF w.ok THEN FileRet("Ok", w.files, <<>>, "")
                          ELSE FileRet("FileOperation", w.files, <<>>,
                                       "write")

decrypt_file(files, key, input_path, output_path, fault, kept) ==
    LET encrypted == fs_read(files, input_path, fault)
    IN  IF ~encrypted.ok THEN FileRet("FileOperation", files, <<>>, "read")
        ELSE LET plaintext == decrypt_bytes(key, encrypted.data)
             IN  IF plaintext.res # "Ok"
                 THEN FileRet(plaintext.res, files, <<>>, "codec")
                 ELSE LET w == fs_write(files, output_path, plaintext.data,
                                        fault, kept)
                      IN  IF w.ok THEN FileRet("Ok", w.files, <<>>, "")
                          ELSE FileRet("FileOperation", w.files, <<>>,
                                       "write")

encrypt_content_to_file(files, key, content, output_path, iv, fault, kept) ==
    LET encrypted == encrypt_bytes(key, content, iv)
    IN  IF encrypted.res # "Ok"
        THEN FileRet(encrypted.res, files, <<>>, "codec")
        ELSE LET w == fs_write(files, output_path, encrypted.data, fault,
                               kept)
             IN  IF w.ok THEN FileRet("Ok", w.files, <<>>, "")
                 ELSE FileRet("FileOperation", w.files, <<>>, "write")

\* (mutant) a file that cannot be read is taken for an empty one.
decrypt_file_to_memory_or_empty(files, key, input_path, fault) ==
    LET encrypted == fs_read(files, input_path, fault)
        plaintext == decrypt_bytes(key, encrypted.data)
    IN  IF plaintext.res # "Ok"
        THEN FileRet(plaintext.res, files, <<>>, "codec")
        ELSE FileRet("Ok", files, plaintext.data, "")

decrypt_file_to_memory(files, key, input_path, fault) ==
    LET encrypted == fs_read(files, input_path, fault)
    IN  IF ~encrypted.ok THEN FileRet("FileOperation", files, <<>>, "read")
        ELSE LET plaintext == decrypt_bytes(key, encrypted.data)
             IN  IF plaintext.res # "Ok"
                 THEN FileRet(plaintext.res, files, <<>>, "codec")
                 ELSE FileRet("Ok", files, plaintext.data, "")

\* ------------------------------------------------------------ salt file
\* What the environment does to a call of load_salt / save_salt / argon2.
LoadFaults == {"ok", "path", "read"}
SaveFaults == {"ok", "path", "mkdir", "open", "write"}
KdfFaults == {"ok", "err"}

NoFault == [load |-> "ok", save |-> "ok", kdf1 |-> "ok", kdf2 |-> "ok"]

\* A handler returns at the first error, so at most one call of it fails.
Faults ==
    {[NoFault EXCEPT !.load = x] : x \in LoadFaults}
    \cup {[NoFault EXCEPT !.save = x] : x \in SaveFaults}
    \cup {[NoFault EXCEPT !.kdf1 = x] : x \in KdfFaults}
    \cup {[NoFault EXCEPT !.kdf2 = x] : x \in KdfFaults}

\* (mutant) the file is never found.
load_salt_never_finds(w, fault) ==
    IF fault = "path" THEN [res |-> "Other", salt |-> None]
    ELSE [res |-> "Ok", salt |-> None]

\* load_salt: salt_file_path()? ; !exists() -> Ok(None) ; read_to_string.
load_salt(w, fault) ==
    IF fault = "path" THEN [res |-> "Other", salt |-> None]
    ELSE IF w.file = None THEN [res |-> "Ok", salt |-> None]
    ELSE IF fault = "read" THEN [res |-> "SaltLoadFailed", salt |-> None]
    ELSE [res |-> "Ok", salt |-> w.file]

\* save_salt: salt_file_path()? ; create_dir_all(parent)? (an io::Error, so
\* Error::Io) ; fs::write, which creates or truncates the file and then
\* writes: failing to open leaves the file as it was, failing to write
\* leaves it empty.
save_salt(w, salt, fault) ==
    IF fault = "path" THEN [w |-> w, res |-> "Other"]
    ELSE IF fault = "mkdir" THEN [w |-> w, res |-> "Io"]
    ELSE IF fault = "open" THEN [w |-> w, res |-> "SaltSaveFailed"]
    ELSE IF fault = "write"
         THEN [w |-> [w EXCEPT !.file = Some(EmptyStr)], res |-> "SaltSaveFailed"]
    ELSE [w |-> [w EXCEPT !.file = Some(salt), !.unsaved = @ \ {salt}],
          res |-> "Ok"]

\* ------------------------------------------------------------ ext.rs
\* The handlers, each run from lock() to the drop of the guard.  f gives the
\* environment's answer to each fallible call: f.load, f.save, f.kdf1 (the
\* first derive_key of the handler), f.kdf2 (the second).  The result names
\* the call that returned the error in `at`.
Ret(w, res, at) == [w |-> w, res |-> res, at |-> at]

ext_unlock_app(w, password, f) ==
    LET l == load_salt(w, f.load)
    IN  IF l.res # "Ok" THEN Ret(w, l.res, "load_salt")
        ELSE
        LET g == generate_salt(w)
            s == IF IsSome(l.salt)
                 THEN [w |-> set_salt(w, Unwrap(l.salt)), res |-> "Ok"]
                 ELSE save_salt([g.w EXCEPT !.unsaved = @ \cup {g.salt}],
                                g.salt, f.save)
        IN  IF s.res # "Ok" THEN Ret(s.w, s.res, "save_salt")
            ELSE
            LET d == derive_key(s.w, password, f.kdf1)
            IN  IF d.res # "Ok" THEN Ret(d.w, d.res, "derive_key")
                ELSE Ret(d.w,
                         IF state(d.w.km) = "Available"
                         THEN "Ok(true)" ELSE "Ok(false)",
                         "")

\* (mutant) lock also forgets the salt, in memory and on disk.
ext_lock_app_forgets_salt(w) ==
    Ret([clear_key(w) EXCEPT !.km.salt = None, !.file = None], "Ok", "")

ext_lock_app(w) == Ret(clear_key(w), "Ok", "")

ext_get_encryption_status(w) ==
    Ret(w, IF state(w.km) = "Available" THEN "Ok(true)" ELSE "Ok(false)", "")

ext_change_password(w, old_password, new_password, f) ==
    IF salt_of(w.km) = None THEN Ret(w, "SaltNotFound", "salt")
    ELSE
    LET d1 == derive_key(w, old_password, f.kdf1)
    IN  IF d1.res # "Ok" THEN Ret(d1.w, d1.res, "derive_key(old)")
        ELSE IF state(d1.w.km) # "Available"
        THEN Ret(d1.w, "IncorrectPassword", "state")
        ELSE
        LET g == generate_salt(d1.w)
            d2 == derive_key(g.w, new_password, f.kdf2)
        IN  IF d2.res # "Ok" THEN Ret(d2.w, d2.res, "derive_key(new)")
            ELSE
            LET s == save_salt(d2.w, g.salt, f.save)
            IN  IF s.res # "Ok" THEN Ret(s.w, s.res, "save_salt")
                ELSE Ret(s.w, "Ok", "")

\* ------------------------------------------------------------ commands.rs
\* (mutant) an unlocked application refuses to unlock again.
cmd_unlock_app_once(w, password, f) ==
    IF is_empty(password) THEN Ret(w, "PasswordRequired", "")
    ELSE IF state(w.km) = "Available" THEN Ret(w, "AlreadyEnabled", "")
    ELSE ext_unlock_app(w, password, f)

cmd_unlock_app(w, password, f) ==
    IF is_empty(password) THEN Ret(w, "PasswordRequired", "")
    ELSE ext_unlock_app(w, password, f)

cmd_lock_app(w) == ext_lock_app(w)

cmd_get_encryption_status(w) == ext_get_encryption_status(w)

\* (mutant) the command passes its arguments on unchecked.
cmd_change_password_unchecked(w, old_password, new_password, f) ==
    ext_change_password(w, old_password, new_password, f)

cmd_change_password(w, old_password, new_password, f) ==
    IF is_empty(old_password) \/ is_empty(new_password)
    THEN Ret(w, "PasswordRequired", "")
    ELSE ext_change_password(w, old_password, new_password, f)

\* ------------------------------------------------------------ state machine
\* What `last` remembers of the state a call was made in.
Snapshot == [key |-> key_manager.key, salt |-> key_manager.salt,
             file |-> salt_file, held |-> held]

\* RwLock::new(None): nobody holds the lock.
Unlocked == [readers |-> {}, writer |-> {}]

\* A thread that has not read the key container.
NotRead == [op |-> "", res |-> "", key |-> None]

\* The codec given a key and a plaintext and not yet called.  enc: the
\* function that made the blob; ivs: the nonces of the blobs made under the
\* key so far; at: the position of the byte changed in the blob since (0:
\* none); cut: the blob was shortened since; dkey, daad: the key and
\* associated data given to decrypt.
CodecInput(key, pt) ==
    [op |-> "input", key |-> key, pt |-> pt, aad |-> <<>>, iv |-> <<>>,
     blob |-> <<>>, at |-> 0, dkey |-> key, daad |-> <<>>, res |-> "",
     out |-> <<>>, enc |-> "", ivs |-> <<>>, cut |-> FALSE]

\* The codec before its first use.
NoCodec == [CodecInput(Key32(0), <<>>) EXCEPT !.op = ""]

\* A thread that is in no handler.
NoFrame == [op |-> "", pw |-> 0, npw |-> 0, salt |-> None, res |-> "",
            at |-> "", pre |-> None]

\* The three files of a use of the helpers, as the tests name them.
Paths == {"input", "encrypted", "decrypted"}

\* The helpers given a key and an input file (None: there is none) and not
\* yet called.  sealed: what encrypt_* last wrote whole to the encrypted
\* file and nothing has changed since, [by, pt]; op, dkey, fault, res, at,
\* mem, pre: the call that returned last, the key and fault it was given,
\* its result, the step it returned at, the bytes it returned and the
\* files when it was made.
FilesInput(key, input) ==
    LET files == [p \in Paths |-> IF p = "input" THEN input ELSE None]
    IN  [files |-> files, key |-> key, sealed |-> None, op |-> "input",
         dkey |-> key, fault |-> "ok", res |-> "", at |-> "",
         mem |-> <<>>, pre |-> files]

NoFiles == [FilesInput(Key32(0), None) EXCEPT !.op = ""]

InitApp ==
    /\ key_manager = KeyManager_new
    /\ salt_file = None
    /\ rng = 0
    /\ released = None
    /\ unsaved = {}
    /\ origin = None
    /\ locked = FALSE
    /\ installed = None
    /\ held = None
    /\ last = [op |-> "new", pw |-> 0, npw |-> 0, f |-> NoFault,
               pre |-> [key |-> None, salt |-> None, file |-> None,
                        held |-> None],
               res |-> "", at |-> ""]
    /\ mutex = {}
    /\ pc = [t \in Threads |-> "idle"]
    /\ frame = [t \in Threads |-> NoFrame]
    /\ rwlock = Unlocked
    /\ seen = [t \in Threads |-> NotRead]

Init == InitApp /\ codec = NoCodec /\ fstate = NoFiles

\* The shared state after a handler (or a statement of one) left it as w.
Commit(w) ==
    /\ w.rng <= MaxSalts
    /\ key_manager' = w.km
    /\ salt_file' = w.file
    /\ rng' = w.rng
    /\ released' = w.released
    /\ unsaved' = w.unsaved

Returned(op, pw, npw, f, res, at) ==
    last' = [op |-> op, pw |-> pw, npw |-> npw, f |-> f, pre |-> Snapshot,
             res |-> res, at |-> at]

\* ---- Spec: the coordinator, one action per call of a handler.  The
\* handlers hold the Mutex<KeyManager> from their first statement to their
\* return, so a call is one step (SpecSteps runs them statement by statement).
\* The environment fails only a call the handler makes: a fault of f at a
\* call the run r never reached is the run without fault.
Reached(f, r) ==
    \/ f = NoFault
    \/ f.load # "ok" /\ r.at = "load_salt"
    \/ f.save # "ok" /\ r.at = "save_salt"
    \/ f.kdf1 # "ok" /\ r.at \in {"derive_key", "derive_key(old)"}
    \/ f.kdf2 # "ok" /\ r.at = "derive_key(new)"

Call(op, pw, npw, f, run) == \E r \in {run} :
    /\ Reached(f, r)
    /\ Commit(r.w)
    /\ Returned(op, pw, npw, f, r.res, r.at)
    /\ origin' = IF op \in {"cmd_unlock_app", "ext_unlock_app"}
                    /\ salt_file = None /\ r.res = "Ok(true)"
                 THEN Some([pw |-> pw, salt |-> Unwrap(r.w.file),
                            key |-> Unwrap(r.w.km.key)])
                 ELSE origin
    /\ UNCHANGED <<locked, installed, held, mutex, pc, frame, apart>>

\* The faults that can meet a call of unlock_app / change_password.
UnlockFaults == {f \in Faults : f.kdf2 = "ok"}
ChangeFaults == {f \in Faults : f.load = "ok"}

CmdUnlockApp ==
    \E pw \in Passwords, f \in UnlockFaults :
        Call("cmd_unlock_app", pw, 0, f, cmd_unlock_app(World, pw, f))

CmdChangePassword ==
    \E old \in Passwords, new \in Passwords, f \in ChangeFaults :
        Call("cmd_change_password", old, new, f,
             cmd_change_password(World, old, new, f))

\* Rust code calling the trait methods without the commands.  With no empty
\* argument the command is exactly this call, so only the calls the
\* commands refuse are taken separately.
ExtUnlockApp ==
    \E pw \in Passwords, f \in UnlockFaults :
        /\ is_empty(pw)
        /\ Call("ext_unlock_app", pw, 0, f, ext_unlock_app(World, pw, f))

ExtChangePassword ==
    \E old \in Passwords, new \in Passwords, f \in ChangeFaults :
        /\ is_empty(old) \/ is_empty(new)
        /\ Call("ext_change_password", old, new, f,
                ext_change_password(World, old, new, f))

LockApp == Call("lock_app", 0, 0, NoFault, cmd_lock_app(World))

GetEncryptionStatus ==
    Call("get_encryption_status", 0, 0, NoFault, cmd_get_encryption_status(World))

\* The process exits and a new one starts: the old EncryptionState is
\* dropped (and with it the key), setup() manages EncryptionState::default().
\* The salt file stays.
process_restart(w) == [clear_key(w) EXCEPT !.km = KeyManager_new]

Restart == Call("restart", 0, 0, NoFault, Ret(process_restart(World), "", ""))

Next ==
    \/ CmdUnlockApp
    \/ ExtUnlockApp
    \/ CmdChangePassword
    \/ ExtChangePassword
    \/ LockApp
    \/ GetEncryptionStatus
    \/ Restart

Spec == Init /\ [][Next]_vars

\* ---- SpecKM: a KeyManager used through its own methods.
KMCall(op, pw, w, res) ==
    /\ Commit(w)
    /\ Returned(op, pw, 0, NoFault, res, "")
    /\ locked' = IF op = "clear_key" THEN TRUE
                 ELSE IF w.derived \/ op = "new" THEN FALSE
                 ELSE locked
    /\ installed' = IF op \in {"clear_key", "new"} THEN None
                    ELSE IF op = "derive_key" /\ res = "Ok"
                    THEN Some(Argon2id(pw, Unwrap(w.km.salt)))
                    ELSE installed
    /\ UNCHANGED <<origin, mutex, pc, frame, apart>>

KM_new ==
    /\ KMCall("new", 0, process_restart(World), "")
    /\ held' = None

KM_state ==
    /\ KMCall("state", 0, World, state(key_manager))
    /\ UNCHANGED held

KM_set_salt ==
    \E s \in {EmptyStr} \cup Salts :
        /\ KMCall("set_salt", s, set_salt(World, s), "")
        /\ UNCHANGED held

KM_generate_salt ==
    /\ KMCall("generate_salt", 0, generate_salt(World).w, "")
    /\ UNCHANGED held

KM_derive_key ==
    \E pw \in Passwords, kdf \in KdfFaults :
        /\ KMCall("derive_key", pw, derive_key(World, pw, kdf).w,
                  derive_key(World, pw, kdf).res)
        /\ UNCHANGED held

\* The caller keeps the copy it was given.
KM_get_key ==
    /\ KMCall("get_key", 0, World, get_key(key_manager).res)
    /\ held' = IF get_key(key_manager).res = "Ok"
               THEN get_key(key_manager).key ELSE held

KM_clear_key ==
    /\ KMCall("clear_key", 0, clear_key(World), "")
    /\ UNCHANGED held

NextKM ==
    \/ KM_new
    \/ KM_state
    \/ KM_set_salt
    \/ KM_generate_salt
    \/ KM_derive_key
    \/ KM_get_key
    \/ KM_clear_key

SpecKM == Init /\ [][NextKM]_vars

\* ---- SpecSteps: the handlers of ext.rs run by threads, one statement at a
\* time.  frame[t].salt is the handler's local `salt` / `new_salt`,
\* frame[t].pre the state when it took the lock.

\* (mutant) a lock that excludes nobody.
try_lock_always(m) == TRUE

\* state.key_manager.lock(): returns once no other thread holds the guard.
try_lock(m) == m = {}

\* Thread t goes to statement next, its frame changed by the EXCEPT-style
\* record upd (the fields salt, res, at).
Goto(t, next, upd) ==
    /\ pc' = [pc EXCEPT ![t] = next]
    /\ frame' = [frame EXCEPT ![t] = [@ EXCEPT !.salt = upd.salt,
                                               !.res = upd.res,
                                               !.at = upd.at]]
    /\ UNCHANGED <<mutex, origin, locked, installed, held, last, apart>>

Keep(t) == [salt |-> frame[t].salt, res |-> frame[t].res, at |-> frame[t].at]
Fail(t, res, at) == [salt |-> frame[t].salt, res |-> res, at |-> at]

\* `let mut key_manager = state.key_manager.lock().unwrap();`
Begin(t) ==
    \E op \in {"unlock_app", "lock_app", "get_encryption_status",
               "change_password"},
       pw \in Passwords, npw \in Passwords :
        /\ pc[t] = "idle"
        /\ try_lock(mutex)
        /\ op # "change_password" => npw = 0
        /\ op \in {"lock_app", "get_encryption_status"} => pw = 0
        /\ mutex' = mutex \cup {t}
        /\ pc' = [pc EXCEPT ![t] = op]
        /\ frame' = [frame EXCEPT ![t] =
                        [op |-> op, pw |-> pw, npw |-> npw, salt |-> None,
                         res |-> "", at |-> "", pre |-> Some(World)]]
        /\ UNCHANGED <<key_manager, salt_file, rng, released, unsaved,
                       origin, locked, installed, held, last, apart>>

\* unlock_app: `if let Some(salt) = self.load_salt()?`
U_load_salt(t) ==
    /\ pc[t] = "unlock_app"
    /\ \E fault \in LoadFaults : \E l \in {load_salt(World, fault)} :
        /\ fault = "ok" \/ l.res # "Ok"
        /\ IF l.res # "Ok" THEN Goto(t, "return", Fail(t, l.res, "load_salt"))
           ELSE IF IsSome(l.salt)
           THEN Goto(t, "u_set_salt", [Keep(t) EXCEPT !.salt = l.salt])
           ELSE Goto(t, "u_generate_salt", Keep(t))
        /\ UNCHANGED <<key_manager, salt_file, rng, released, unsaved>>

\* `key_manager.set_salt(salt);`
U_set_salt(t) ==
    /\ pc[t] = "u_set_salt"
    /\ Commit(set_salt(World, Unwrap(frame[t].salt)))
    /\ Goto(t, "u_derive_key", Keep(t))

\* `let salt = key_manager.generate_salt();`
U_generate_salt(t) ==
    /\ pc[t] = "u_generate_salt"
    /\ \E g \in {generate_salt(World)} :
        /\ Commit([g.w EXCEPT !.unsaved = @ \cup {g.salt}])
        /\ Goto(t, "u_save_salt", [Keep(t) EXCEPT !.salt = Some(g.salt)])

\* `self.save_salt(&salt)?;`
U_save_salt(t) ==
    /\ pc[t] = "u_save_salt"
    /\ \E fault \in SaveFaults :
       \E s \in {save_salt(World, Unwrap(frame[t].salt), fault)} :
        /\ Commit(s.w)
        /\ IF s.res # "Ok" THEN Goto(t, "return", Fail(t, s.res, "save_salt"))
           ELSE Goto(t, "u_derive_key", Keep(t))

\* `key_manager.derive_key(password.as_bytes())?;`
U_derive_key(t) ==
    /\ pc[t] = "u_derive_key"
    /\ \E kdf \in KdfFaults : \E d \in {derive_key(World, frame[t].pw, kdf)} :
        /\ Commit(d.w)
        /\ IF d.res # "Ok" THEN Goto(t, "return", Fail(t, d.res, "derive_key"))
           ELSE Goto(t, "u_state", Keep(t))

\* `Ok(key_manager.state() == KeyState::Available)`, in unlock_app and in
\* get_encryption_status.
ReturnState(t) ==
    /\ pc[t] \in {"u_state", "get_encryption_status"}
    /\ Goto(t, "return",
            Fail(t, IF state(key_manager) = "Available"
                    THEN "Ok(true)" ELSE "Ok(false)", ""))
    /\ UNCHANGED <<key_manager, salt_file, rng, released, unsaved>>

\* lock_app: `key_manager.clear_key(); Ok(())`
L_clear_key(t) ==
    /\ pc[t] = "lock_app"
    /\ Commit(clear_key(World))
    /\ Goto(t, "return", Fail(t, "Ok", ""))

\* change_password:
\* `let old_salt = key_manager.salt().ok_or(Error::SaltNotFound)?.to_string();`
C_salt(t) ==
    /\ pc[t] = "change_password"
    /\ IF salt_of(key_manager) = None
       THEN Goto(t, "return", Fail(t, "SaltNotFound", "salt"))
       ELSE Goto(t, "c_derive_old", Keep(t))
    /\ UNCHANGED <<key_manager, salt_file, rng, released, unsaved>>

\* `key_manager.derive_key(old_password.as_bytes())?;`
C_derive_old(t) ==
    /\ pc[t] = "c_derive_old"
    /\ \E kdf \in KdfFaults : \E d \in {derive_key(World, frame[t].pw, kdf)} :
        /\ Commit(d.w)
        /\ IF d.res # "Ok"
           THEN Goto(t, "return", Fail(t, d.res, "derive_key(old)"))
           ELSE Goto(t, "c_state", Keep(t))

\* `if key_manager.state() != KeyState::Available { return Err(IncorrectPassword) }`
C_state(t) ==
    /\ pc[t] = "c_state"
    /\ IF state(key_manager) # "Available"
       THEN Goto(t, "return", Fail(t, "IncorrectPassword", "state"))
       ELSE Goto(t, "c_generate_salt", Keep(t))
    /\ UNCHANGED <<key_manager, salt_file, rng, released, unsaved>>

\* (mutant) the new salt is saved before the new key is derived.
C_generate_salt_save_first(t) ==
    /\ pc[t] = "c_generate_salt"
    /\ \E g \in {generate_salt(World)} :
        /\ Commit(g.w)
        /\ Goto(t, "c_save_salt", [Keep(t) EXCEPT !.salt = Some(g.salt)])

\* `let new_salt = key_manager.generate_salt();`
C_generate_salt(t) ==
    /\ pc[t] = "c_generate_salt"
    /\ \E g \in {generate_salt(World)} :
        /\ Commit(g.w)
        /\ Goto(t, "c_derive_new", [Keep(t) EXCEPT !.salt = Some(g.salt)])

\* `key_manager.derive_key(new_password.as_bytes())?;`
C_derive_new(t) ==
    /\ pc[t] = "c_derive_new"
    /\ \E kdf \in KdfFaults : \E d \in {derive_key(World, frame[t].npw, kdf)} :
        /\ Commit(d.w)
        /\ IF d.res # "Ok"
           THEN Goto(t, "return", Fail(t, d.res, "derive_key(new)"))
           ELSE Goto(t, "c_save_salt", Keep(t))

\* `self.save_salt(&new_salt)?; Ok(())`
C_save_salt(t) ==
    /\ pc[t] = "c_save_salt"
    /\ \E fault \in SaveFaults :
       \E s \in {save_salt(World, Unwrap(frame[t].salt), fault)} :
        /\ Commit(s.w)
        /\ IF s.res # "Ok" THEN Goto(t, "return", Fail(t, s.res, "save_salt"))
           ELSE Goto(t, "return", Fail(t, "Ok", ""))

\* The handler returns and its guard is dropped.
Return(t) ==
    /\ pc[t] = "return"
    /\ mutex' = mutex \ {t}
    /\ pc' = [pc EXCEPT ![t] = "idle"]
    /\ frame' = [frame EXCEPT ![t] = NoFrame]
    /\ UNCHANGED <<key_manager, salt_file, rng, released, unsaved,
                   origin, locked, installed, held, last, apart>>

NextSteps ==
    \E t \in Threads :
        \/ Begin(t)
        \/ U_load_salt(t)
        \/ U_set_salt(t)
        \/ U_generate_salt(t)
        \/ U_save_salt(t)
        \/ U_derive_key(t)
        \/ ReturnState(t)
        \/ L_clear_key(t)
        \/ C_salt(t)
        \/ C_derive_old(t)
        \/ C_state(t)
        \/ C_generate_salt(t)
        \/ C_derive_new(t)
        \/ C_save_salt(t)
        \/ Return(t)

SpecSteps == Init /\ [][NextSteps]_vars

\* ---- SpecRW: threads sharing one KeyManager call its methods, each method
\* run statement by statement around its use of the RwLock of `key`.
\* state, get_key and clear_key take &self and may be called by any thread
\* at any time; derive_key takes &mut self, so it starts only when no other
\* call is running and nothing starts while it runs.

\* What a thread finds in the storage of `key` while another is in the
\* middle of writing it.
Torn == -1

\* (mutant) read() returns while a writer holds the lock.
can_read_always(l) == TRUE

\* RwLock::read() returns once no thread holds the lock to write.
can_read(l) == l.writer = {}

\* RwLock::write() returns once no thread holds the lock at all.
can_write(l) == l.writer = {} /\ l.readers = {}

RWGoto(t, next, op, pw, salt) ==
    /\ pc' = [pc EXCEPT ![t] = next]
    /\ frame' = [frame EXCEPT ![t] = [NoFrame EXCEPT !.op = op, !.pw = pw,
                                                     !.salt = salt]]
    /\ UNCHANGED <<origin, locked, installed, held, last, mutex, codec,
                   fstate>>

RWSame(t, next) ==
    RWGoto(t, next, frame[t].op, frame[t].pw, frame[t].salt)

\* A thread calls state(), get_key() or clear_key().
RW_call(t) ==
    \E op \in {"state", "get_key", "clear_key"} :
        /\ pc[t] = "idle"
        /\ \A u \in Threads : frame[u].op # "derive_key"
        /\ RWGoto(t, IF op = "clear_key" THEN "rw_write" ELSE "rw_read",
                  op, 0, None)
        /\ UNCHANGED <<key_manager, salt_file, rng, released, unsaved,
                       rwlock, seen>>

\* A thread calls derive_key(password): the salt is taken or generated and
\* the key computed; an Err returns before the lock is touched.
RW_derive_key(t) ==
    \E password \in Passwords, kdf \in KdfFaults :
        /\ \A u \in Threads : pc[u] = "idle"
        /\ \E w1 \in {IF IsSome(salt_of(key_manager)) THEN World
                      ELSE generate_salt(World).w} :
            /\ Commit(w1)
            /\ IF hash_password_into(password, Unwrap(w1.km.salt), kdf).ok
               THEN RWGoto(t, "rw_write", "derive_key", password, w1.km.salt)
               ELSE RWGoto(t, "idle", "", 0, None)
        /\ UNCHANGED <<rwlock, seen>>

\* `self.key.read().unwrap()`
RW_read_lock(t) ==
    /\ pc[t] = "rw_read"
    /\ can_read(rwlock)
    /\ rwlock' = [rwlock EXCEPT !.readers = @ \cup {t}]
    /\ RWSame(t, "rw_reading")
    /\ UNCHANGED <<key_manager, salt_file, rng, released, unsaved, seen>>

\* `.is_some()` / `Some(secure_key) => Ok(*secure_key.key())`: the storage is
\* read, the guard dropped at the end of the statement and the call returns.
RW_read(t) ==
    /\ pc[t] = "rw_reading"
    /\ seen' = [seen EXCEPT ![t] =
                    [op |-> frame[t].op,
                     res |-> IF frame[t].op = "state" THEN state(key_manager)
                             ELSE get_key(key_manager).res,
                     key |-> key_manager.key]]
    /\ rwlock' = [rwlock EXCEPT !.readers = @ \ {t}]
    /\ RWGoto(t, "idle", "", 0, None)
    /\ UNCHANGED <<key_manager, salt_file, rng, released, unsaved>>

\* `self.key.write().unwrap()`
RW_write_lock(t) ==
    /\ pc[t] = "rw_write"
    /\ can_write(rwlock)
    /\ rwlock' = [rwlock EXCEPT !.writer = @ \cup {t}]
    /\ RWSame(t, "rw_writing")
    /\ UNCHANGED <<key_manager, salt_file, rng, released, unsaved, seen>>

\* `*guard = value`, under way: part of the storage is written.
RW_write_begin(t) ==
    /\ pc[t] = "rw_writing"
    /\ Commit([World EXCEPT !.km.key = Some(Torn)])
    /\ RWSame(t, "rw_written")
    /\ UNCHANGED <<rwlock, seen>>

\* `*guard = value`, done; the guard is dropped and the call returns.
RW_write_end(t) ==
    /\ pc[t] = "rw_written"
    /\ Commit([World EXCEPT !.km.key =
                    IF frame[t].op = "clear_key" THEN None
                    ELSE Some(Argon2id(frame[t].pw, Unwrap(frame[t].salt)))])
    /\ rwlock' = [rwlock EXCEPT !.writer = @ \ {t}]
    /\ RWGoto(t, "idle", "", 0, None)
    /\ UNCHANGED seen

NextRW ==
    \E t \in Threads :
        \/ RW_call(t)
        \/ RW_derive_key(t)
        \/ RW_read_lock(t)
        \/ RW_read(t)
        \/ RW_write_lock(t)
        \/ RW_write_begin(t)
        \/ RW_write_end(t)

SpecRW == Init /\ [][NextRW]_vars

\* ---- SpecCrypto: the codec of crypto.rs applied to inputs drawn from
\* bounded sets: a key (of 32 bytes, or too short), a plaintext, the nonce
\* OsRng draws, associated data; then the blob decrypted as it is or after
\* one of its bytes was changed, under the same or another key or
\* associated data.
CodecKeys == {Key32(k) : k \in 1..MaxKey} \cup {[len |-> TAG_SIZE, id |-> 1]}

RECURSIVE BytesUpTo(_)
BytesUpTo(n) ==
    IF n = 0 THEN {<<>>}
    ELSE BytesUpTo(n - 1)
         \cup {Append(s, b) : s \in {x \in BytesUpTo(n - 1) : Len(x) = n - 1},
                              b \in 0..MaxByte}

Plaintexts == BytesUpTo(MaxLen)

\* Byte strings beyond ASCII: a lone 0xFF, a lead byte without its
\* continuation, a continuation byte alone (none is UTF-8) and the two
\* bytes of U+00E4.
OtherBytes == {<<255>>, <<195>>, <<164>>, <<195, 164>>}
AADs == {<<>>, <<0>>, <<1>>, <<1, 0>>}
Nonces == {[i \in 1..IV_SIZE |-> (n * i) % 256] : n \in 0..MaxNonce}
Masks == {1, 255}

InitCrypto ==
    /\ InitApp
    /\ codec \in {CodecInput(k, pt) : k \in CodecKeys,
                                      pt \in Plaintexts \cup OtherBytes}
    /\ fstate = NoFiles

CodecStep(c) ==
    /\ codec' = c
    /\ UNCHANGED <<key_manager, salt_file, rng, released, unsaved, origin,
                   locked, installed, held, last, mutex, pc, frame, rwlock,
                   seen, fstate>>

Encrypt ==
    \E iv \in Nonces :
        /\ codec.op = "input"
        /\ \E r \in {encrypt_bytes(codec.key, codec.pt, iv)} :
            CodecStep([codec EXCEPT !.op = "encrypt_bytes", !.iv = iv,
                                    !.blob = r.data, !.res = r.res,
                                    !.enc = "encrypt_bytes",
                                    !.ivs = Append(@, iv)])

EncryptWithAad ==
    \E iv \in Nonces, aad \in AADs :
        /\ codec.op = "input"
        /\ \E r \in {encrypt_bytes_with_aad(codec.key, codec.pt, aad, iv)} :
            CodecStep([codec EXCEPT !.op = "encrypt_bytes_with_aad",
                                    !.iv = iv, !.aad = aad,
                                    !.blob = r.data, !.res = r.res,
                                    !.enc = "encrypt_bytes_with_aad",
                                    !.ivs = Append(@, iv)])

\* The same function is called again with the same arguments: another
\* blob under the key.
EncryptNext ==
    \E iv \in Nonces :
        /\ codec.op \in {"encrypt_bytes", "encrypt_bytes_with_aad"}
        /\ codec.res = "Ok"
        /\ Len(codec.ivs) < MaxCalls
        /\ \E r \in {IF codec.enc = "encrypt_bytes"
                      THEN encrypt_bytes(codec.key, codec.pt, iv)
                      ELSE encrypt_bytes_with_aad(codec.key, codec.pt,
                                                  codec.aad, iv)} :
            CodecStep([codec EXCEPT !.iv = iv, !.blob = r.data,
                                    !.res = r.res, !.ivs = Append(@, iv)])

\* The stored blob (the first made) loses its end.
Truncate ==
    /\ codec.op \in {"encrypt_bytes", "encrypt_bytes_with_aad"}
    /\ codec.res = "Ok" /\ Len(codec.ivs) = 1
    /\ \E n \in 0..(Len(codec.blob) - 1) :
        CodecStep([codec EXCEPT !.op = "truncate", !.cut = TRUE,
                                !.blob = SubSeq(@, 1, n)])

\* One byte of the stored blob (the first made) is changed.
Tamper ==
    /\ codec.op = "encrypt_bytes" /\ codec.res = "Ok"
    /\ Len(codec.ivs) = 1
    /\ \E i \in 1..Len(codec.blob), m \in Masks :
        CodecStep([codec EXCEPT !.op = "tamper", !.at = i,
                                !.blob[i] = Xor(@, m)])

\* A changed blob is decrypted under the key it was made with.
Decrypt ==
    \E dkey \in CodecKeys :
        /\ codec.op \in {"encrypt_bytes", "tamper", "truncate"}
        /\ codec.enc = "encrypt_bytes" /\ codec.res = "Ok"
        /\ codec.op = "tamper" => dkey = codec.key
        /\ \E r \in {decrypt_bytes(dkey, codec.blob)} :
            CodecStep([codec EXCEPT !.op = "decrypt_bytes", !.dkey = dkey,
                                    !.res = r.res, !.out = r.data])

\* A string is encrypted for a database column.
EncryptField ==
    \E iv \in Nonces :
        /\ codec.op = "input" /\ IsUtf8(codec.pt)
        /\ \E r \in {encrypt_field(codec.key, codec.pt, iv)} :
            CodecStep([codec EXCEPT !.op = "encrypt_field", !.iv = iv,
                                    !.blob = r.data, !.res = r.res,
                                    !.enc = "encrypt_field",
                                    !.ivs = Append(@, iv)])

\* A column is read back: one written by encrypt_field, or bytes that
\* encrypt_bytes put there.
DecryptField ==
    \E dkey \in CodecKeys :
        /\ codec.op \in {"encrypt_field", "encrypt_bytes"}
        /\ codec.res = "Ok" /\ Len(codec.ivs) = 1
        /\ \E r \in {decrypt_field(dkey, codec.blob)} :
            CodecStep([codec EXCEPT !.op = "decrypt_field", !.dkey = dkey,
                                    !.res = r.res, !.out = r.data])

\* Another key or other associated data, not both.
DecryptWithAad ==
    \E dkey \in CodecKeys, daad \in AADs :
        /\ codec.op \in {"encrypt_bytes_with_aad", "truncate"}
        /\ codec.enc = "encrypt_bytes_with_aad" /\ codec.res = "Ok"
        /\ dkey = codec.key \/ daad = codec.aad
        /\ codec.cut => daad = codec.aad
        /\ \E r \in {decrypt_bytes_with_aad(dkey, codec.blob, daad)} :
            CodecStep([codec EXCEPT !.op = "decrypt_bytes_with_aad",
                                    !.dkey = dkey, !.daad = daad,
                                    !.res = r.res, !.out = r.data])

NextCrypto ==
    \/ Encrypt
    \/ EncryptWithAad
    \/ EncryptNext
    \/ Truncate
    \/ Tamper
    \/ Decrypt
    \/ DecryptWithAad
    \/ EncryptField
    \/ DecryptField

SpecCrypto == InitCrypto /\ [][NextCrypto]_vars

\* ---- SpecFiles: the helpers of file_crypto.rs applied to an input file, an
\* encrypted file and a decrypted file, under faults of the file system.
\* The encrypted file is written until a call succeeds and read, or
\* damaged, from then on.
FileContents == BytesUpTo(1)
Kept == {0, IV_SIZE + 1}

\* The keys a file is read back with: the one it was written with, another
\* 32-byte key and a key that is not 32 bytes long.
DecryptKeys(key) ==
    {key, Key32((key.id % MaxKey) + 1), [len |-> TAG_SIZE, id |-> 1]}

InitFiles ==
    /\ InitApp
    /\ codec = NoCodec
    /\ fstate \in {FilesInput(k, input) :
                      k \in CodecKeys,
                      input \in {None} \cup {Some(c) : c \in FileContents}}

\* No encrypt_* call has succeeded and nothing has read the encrypted file.
Writing ==
    \/ fstate.op = "input"
    \/ /\ fstate.op \in {"encrypt_file", "encrypt_content_to_file"}
       /\ fstate.res # "Ok"

FilesStep(f) ==
    /\ fstate' = f
    /\ UNCHANGED <<key_manager, salt_file, rng, released, unsaved, origin,
                   locked, installed, held, last, mutex, pc, frame, rwlock,
                   seen, codec>>

\* The call op, given dkey and fault, returned r.
FilesAfter(op, dkey, fault, r, sealed) ==
    [fstate EXCEPT !.op = op, !.dkey = dkey, !.fault = fault,
                   !.res = r.res, !.at = r.at, !.mem = r.data,
                   !.pre = fstate.files, !.files = r.files,
                   !.sealed = sealed]

\* What the encrypted file holds whole after an encrypt_* call that
\* returned r for the plaintext pt.
Sealed(by, pt, r) ==
    IF r.res = "Ok" THEN Some([by |-> by, pt |-> pt])
    ELSE IF r.files = fstate.files THEN fstate.sealed
    ELSE None

EncryptFile ==
    \E iv \in Nonces, fault \in FileFaults, kept \in Kept :
        /\ Writing
        /\ fault = "write" \/ kept = 0
        /\ \E r \in {encrypt_file(fstate.files, fstate.key, "input",
                                   "encrypted", iv, fault, kept)} :
            FilesStep(FilesAfter("encrypt_file", fstate.key, fault, r,
                        Sealed("encrypt_file",
                               fs_read(fstate.files, "input", "ok").data, r)))

EncryptContentToFile ==
    \E content \in FileContents, iv \in Nonces, fault \in FileFaults \ {"read"},
       kept \in Kept :
        /\ Writing
        /\ fault = "write" \/ kept = 0
        /\ \E r \in {encrypt_content_to_file(fstate.files, fstate.key, content,
                                              "encrypted", iv, fault, kept)} :
            FilesStep(FilesAfter("encrypt_content_to_file", fstate.key, fault,
                        r, Sealed("encrypt_content_to_file", content, r)))

\* One byte of the encrypted file is changed where it stands.
CorruptFile ==
    /\ fstate.op # "" /\ IsSome(fstate.sealed)
    /\ \E at \in {1, IV_SIZE + 1} :
        LET blob == Unwrap(fstate.files["encrypted"])
        IN  FilesStep([fstate EXCEPT
                !.op = "corrupt", !.res = "", !.at = "", !.mem = <<>>,
                !.fault = "ok", !.dkey = fstate.key, !.pre = fstate.files,
                !.sealed = None,
                !.files["encrypted"] =
                    Some([blob EXCEPT ![at] = Xor(@, 1)])])

DecryptFile ==
    \E dkey \in DecryptKeys(fstate.key), fault \in FileFaults, kept \in Kept :
        /\ fstate.op # ""
        /\ fault = "write" \/ kept = 0
        /\ \E r \in {decrypt_file(fstate.files, dkey, "encrypted", "decrypted",
                                   fault, kept)} :
            FilesStep(FilesAfter("decrypt_file", dkey, fault, r,
                                 fstate.sealed))

DecryptFileToMemory ==
    \E dkey \in DecryptKeys(fstate.key), fault \in {"ok", "read"} :
        /\ fstate.op # ""
        /\ \E r \in {decrypt_file_to_memory(fstate.files, dkey, "encrypted",
                                             fault)} :
            FilesStep(FilesAfter("decrypt_file_to_memory", dkey, fault, r,
                                 fstate.sealed))

NextFiles ==
    \/ EncryptFile
    \/ EncryptContentToFile
    \/ CorruptFile
    \/ DecryptFile
    \/ DecryptFileToMemory

SpecFiles == InitFiles /\ [][NextFiles]_vars

\* ------------------------------------------------------------ claims
UnlockOps == {"cmd_unlock_app", "ext_unlock_app"}
ChangeOps == {"cmd_change_password", "ext_change_password"}

\* The call that returned last went through to the coordinator (the command
\* did not refuse it for an empty password).
Accepted ==
    ~(last.op = "cmd_unlock_app" /\ is_empty(last.pw))
    /\ ~(last.op = "cmd_change_password"
         /\ (is_empty(last.pw) \/ is_empty(last.npw)))

\* The last call was change_password(old, new), made with a key installed
\* that was derived from the persisted salt and another password than old.
WrongOldPassword ==
    /\ last.op \in ChangeOps
    /\ ~is_empty(last.pw) /\ ~is_empty(last.npw)
    /\ last.f = NoFault
    /\ IsSome(last.pre.key)
    /\ last.pre.file = last.pre.salt
    /\ Some(SaltOf(Unwrap(last.pre.key))) = last.pre.salt
    /\ PasswordOf(Unwrap(last.pre.key)) # last.pw

\* C1: change_password(old, new) with an old password that is not the one
\* the installed key and persisted salt were established with fails with
\* IncorrectPassword and leaves the persisted salt unchanged.
C1_WrongOldPasswordRejected ==
    WrongOldPassword =>
        /\ last.res = "IncorrectPassword"
        /\ salt_file = last.pre.file

\* C2: when the derivation of the new-password key fails in change_password,
\* the persisted salt and the in-memory salt are both still the old salt and
\* the installed key is still the one derived from the old password and the
\* old salt.
C2_NewSaltNotCommittedOnFailure ==
    (last.op \in ChangeOps /\ last.at = "derive_key(new)") =>
        /\ salt_file = last.pre.file
        /\ key_manager.salt = last.pre.salt
        /\ key_manager.key = Some(Argon2id(last.pw, Unwrap(last.pre.salt)))

\* The last call was unlock(p) in a fresh process, p the password of the
\* session that created the salt file, the file still holding that salt.
Reunlock ==
    /\ last.op \in UnlockOps /\ Accepted
    /\ last.f = NoFault
    /\ last.pre.key = None /\ last.pre.salt = None
    /\ IsSome(origin)
    /\ last.pre.file = Some(Unwrap(origin).salt)
    /\ last.pw = Unwrap(origin).pw

\* C3: the first unlock(p), with no salt file, creates the file and leaves
\* status() Available; unlock(p) with the same password in a fresh process,
\* the salt file present, leaves status() Available and installs the key of
\* the first session.
C3_ReunlockSameKey ==
    /\ (last.op \in UnlockOps /\ Accepted /\ last.f = NoFault
        /\ last.pre.file = None) =>
            /\ last.res = "Ok(true)"
            /\ IsSome(salt_file)
            /\ state(key_manager) = "Available"
            /\ origin = Some([pw |-> last.pw, salt |-> Unwrap(salt_file),
                              key |-> Unwrap(key_manager.key)])
    /\ Reunlock =>
            /\ last.res = "Ok(true)"
            /\ state(key_manager) = "Available"
            /\ salt_file = last.pre.file
            /\ key_manager.key = Some(Unwrap(origin).key)

C3_Witness == Reunlock /\ key_manager.key = Some(Unwrap(origin).key)

\* C4: in unlock with no persisted salt the generated salt is persisted
\* before any key is derived from it: a key derived from such a salt is
\* installed only once that salt has been written to the salt file, and if
\* the save fails no key derived from it is ever installed.
C4_KeyOnlyFromPersistedSalt ==
    IsSome(key_manager.key) => SaltOf(Unwrap(key_manager.key)) \notin unsaved

\* C5 as stated: for every password, the empty one included, and every prior
\* key state, the unlock verb returns true whenever salt load/save succeeds,
\* and the installed key is derive(password, persisted salt).  (Stated here
\* for the runs in which derive_key returns no error either.)
C5_UnlockNeverFailsOnPassword ==
    (last.op = "cmd_unlock_app"
     /\ last.at \notin {"load_salt", "save_salt", "derive_key"}) =>
        /\ last.res = "Ok(true)"
        /\ key_manager.key = Some(Argon2id(last.pw, Unwrap(salt_file)))

\* C5 (amended): for every non-empty password and every prior key state,
\* whenever salt load/save succeeds and derive_key returns no error, the
\* unlock verb returns true and the installed key is derive(password,
\* persisted salt), whatever key was installed before; the verb refuses the
\* empty password with PasswordRequired and changes nothing, while the
\* coordinator's unlock_app called directly accepts it like any other.
C5_UnlockAcceptsNonEmptyPassword ==
    /\ (last.op \in UnlockOps /\ Accepted
        /\ last.at \notin {"load_salt", "save_salt", "derive_key"}) =>
            /\ last.res = "Ok(true)"
            /\ IsSome(salt_file)
            /\ key_manager.salt = salt_file
            /\ key_manager.key = Some(Argon2id(last.pw, Unwrap(salt_file)))
    /\ (last.op = "cmd_unlock_app" /\ is_empty(last.pw)) =>
            /\ last.res = "PasswordRequired"
            /\ key_manager.key = last.pre.key
            /\ key_manager.salt = last.pre.salt
            /\ salt_file = last.pre.file

\* An unlock with a password other than the installed key's replaced the key.
C5_Witness ==
    /\ last.op = "cmd_unlock_app" /\ last.res = "Ok(true)"
    /\ IsSome(last.pre.key)
    /\ PasswordOf(Unwrap(last.pre.key)) # last.pw
    /\ SaltOf(Unwrap(last.pre.key)) = Unwrap(salt_file)
    /\ key_manager.key = Some(Argon2id(last.pw, Unwrap(salt_file)))

\* C6: whenever the container stops holding a key (clear_key, replacement by
\* a new derive_key, destruction), the discarded key's bytes are zeros when
\* its storage is released.
C6_DiscardedKeyZeroed == released \in {None, Some(ZeroBytes)}

\* C7: once clear_key (lock) has run, get_key fails with KeyNotAvailable and
\* state reports Unavailable until the next successful derive_key.
C7_LockedUntilDerive ==
    locked =>
        /\ state(key_manager) = "Unavailable"
        /\ get_key(key_manager).res = "KeyNotAvailable"
        /\ last.op = "state" => last.res = "Unavailable"
        /\ last.op = "get_key" => last.res = "KeyNotAvailable"

\* get_key was called after clear_key, with a key installed before that.
C7_Witness ==
    /\ locked /\ last.op = "get_key" /\ last.res = "KeyNotAvailable"
    /\ IsSome(held)

\* C8: a new KeyManager is Unavailable; state() is Available exactly when the
\* container holds a key, exactly when get_key succeeds; the state becomes
\* Available only by a successful derive_key and Unavailable only by
\* clear_key (or on a new manager).
C8_KeyStateInvariant ==
    /\ last.op = "new" => state(key_manager) = "Unavailable"
    /\ state(key_manager) = "Available" <=> IsSome(key_manager.key)
    /\ state(key_manager) = "Available" <=> get_key(key_manager).res = "Ok"
    /\ last.op = "state" => last.res = state(key_manager)
    /\ (last.pre.key = None /\ state(key_manager) = "Available") =>
            last.op = "derive_key" /\ last.res = "Ok"
    /\ (IsSome(last.pre.key) /\ state(key_manager) = "Unavailable") =>
            last.op \in {"clear_key", "new"}

\* derive_key failed on a manager that holds no key.
C8_Witness ==
    /\ last.op = "derive_key" /\ last.res = "KeyDerivation"
    /\ last.pre.key = None
    /\ state(key_manager) = "Unavailable"

Effect(w, res, at) ==
    [km |-> w.km, file |-> w.file, rng |-> w.rng, unsaved |-> w.unsaved,
     res |-> res, at |-> at]

Handler(op, w, pw, npw, f) ==
    CASE op = "unlock_app" -> ext_unlock_app(w, pw, f)
      [] op = "lock_app" -> ext_lock_app(w)
      [] op = "get_encryption_status" -> ext_get_encryption_status(w)
      [] op = "change_password" -> ext_change_password(w, pw, npw, f)

\* C10: unlock, lock, status and change_password are atomic with respect to
\* each other: while a thread is inside one, no other thread is inside any
\* (so none observes its intermediate states), and what a call has done when
\* it returns is what the whole handler does to the state the call found,
\* which is the state the call before it left.
C10_HandlersAtomic ==
    /\ \A t \in Threads : pc[t] # "idle" => mutex = {t}
    /\ \A t \in Threads, u \in Threads :
            t # u => pc[t] = "idle" \/ pc[u] = "idle"
    /\ \A t \in Threads :
            pc[t] = "return" =>
                \E f \in Faults :
                    \E r \in {Handler(frame[t].op, Unwrap(frame[t].pre),
                                      frame[t].pw, frame[t].npw, f)} :
                        Effect(World, frame[t].res, frame[t].at)
                            = Effect(r.w, r.res, r.at)
    /\ (\A t \in Threads : pc[t] = "idle") => mutex = {}

\* A thread is in the middle of change_password (the key re-derived from
\* the old password, the new salt in memory and not in the file) while
\* another thread has no call running.
C10_Witness ==
    \E t \in Threads, u \in Threads :
        /\ t # u
        /\ pc[t] = "c_derive_new" /\ pc[u] = "idle"
        /\ key_manager.salt = frame[t].salt
        /\ key_manager.salt # salt_file
        /\ IsSome(salt_file)
        /\ key_manager.key = Some(Argon2id(frame[t].pw, Unwrap(salt_file)))

\* C12: the persisted salt is created by the first unlock that finds no
\* salt file and afterwards replaced only by change_password: unlock with a
\* salt file present, lock and status leave the file as it was, and after
\* change_password the file holds the complete old salt or the complete new
\* salt, nothing else.
C12_SaltFileReplacedOnlyWhole ==
    /\ (last.op \in UnlockOps /\ IsSome(last.pre.file)) =>
            salt_file = last.pre.file
    /\ last.op \in {"lock_app", "get_encryption_status"} =>
            salt_file = last.pre.file
    /\ (last.op \in ChangeOps /\ IsSome(last.pre.file)) =>
            \/ salt_file = last.pre.file
            \/ /\ IsSome(salt_file)
               /\ Unwrap(salt_file) \in Salts
               /\ salt_file = key_manager.salt

\* C13: change_password fails with SaltNotFound only when no salt has been
\* established: whenever a complete salt is persisted, change_password does
\* not fail with SaltNotFound, also as the first call of a fresh process.
C13_NoSaltNotFoundWithPersistedSalt ==
    (last.op \in ChangeOps /\ Accepted
     /\ IsSome(last.pre.file) /\ Unwrap(last.pre.file) \in Salts) =>
        last.res # "SaltNotFound"

\* Thread t is returning Ok from change_password.
ChangedPassword(t) ==
    /\ pc[t] = "return"
    /\ frame[t].op = "change_password"
    /\ frame[t].res = "Ok"

\* C14: after a successful change_password(old, new) the persisted salt is
\* the in-memory salt and differs from the old salt, the installed key is
\* derive(new, new salt) and the state is Available; and while the call
\* runs, the new salt is in the salt file only once that key is installed.
C14_ChangePasswordCommitsNewSalt ==
    \A t \in Threads :
        /\ ChangedPassword(t) =>
            /\ IsSome(salt_file)
            /\ salt_file = key_manager.salt
            /\ salt_file # Unwrap(frame[t].pre).km.salt
            /\ salt_file # Unwrap(frame[t].pre).file
            /\ key_manager.key
                 = Some(Argon2id(frame[t].npw, Unwrap(salt_file)))
            /\ state(key_manager) = "Available"
        /\ (frame[t].op = "change_password" /\ IsSome(frame[t].salt)
            /\ salt_file = frame[t].salt) =>
                key_manager.key
                    = Some(Argon2id(frame[t].npw, Unwrap(frame[t].salt)))

C14_Witness ==
    \E t \in Threads :
        /\ ChangedPassword(t)
        /\ IsSome(Unwrap(frame[t].pre).file)
        /\ salt_file = key_manager.salt
        /\ salt_file # Unwrap(frame[t].pre).file

\* C15 as stated: change_password fails with PasswordRequired whenever
\* old_password or new_password is empty, and then changes nothing: the
\* installed key, the key state, the in-memory salt and the persisted salt
\* are as before the call.
C15_EmptyPasswordRejected ==
    (last.op \in ChangeOps /\ (is_empty(last.pw) \/ is_empty(last.npw))) =>
        /\ last.res = "PasswordRequired"
        /\ key_manager.key = last.pre.key
        /\ key_manager.salt = last.pre.salt
        /\ salt_file = last.pre.file

\* C15 amended: the change_password command fails with PasswordRequired
\* whenever old_password or new_password is empty, and then changes nothing.
C15_CommandRejectsEmptyPassword ==
    (last.op = "cmd_change_password"
     /\ (is_empty(last.pw) \/ is_empty(last.npw))) =>
        /\ last.res = "PasswordRequired"
        /\ key_manager.key = last.pre.key
        /\ state(key_manager) = (IF IsSome(last.pre.key) THEN "Available"
                                 ELSE "Unavailable")
        /\ key_manager.salt = last.pre.salt
        /\ salt_file = last.pre.file

C15_Witness ==
    /\ last.op = "cmd_change_password"
    /\ ~is_empty(last.pw) /\ is_empty(last.npw)
    /\ last.res = "PasswordRequired"
    /\ IsSome(last.pre.key) /\ IsSome(last.pre.file)
    /\ key_manager.key = last.pre.key

\* unlock(p); lock(); unlock(p) from the state w, nothing failing: the two
\* unlocks and the lock between them.
UnlockLockUnlock(w, p) ==
    LET u1 == cmd_unlock_app(w, p, NoFault)
        l == cmd_lock_app(u1.w)
        u2 == cmd_unlock_app(l.w, p, NoFault)
    IN  [u1 |-> u1, l |-> l, u2 |-> u2]

\* C16: lock() succeeds from every state, is idempotent and touches only the
\* key: the in-memory salt and the persisted salt are unchanged, and
\* unlock(p); lock(); unlock(p) reinstalls the key held before the lock.
C16_LockTouchesOnlyKey ==
    /\ last.op = "lock_app" =>
            /\ last.res = "Ok"
            /\ key_manager.key = None
            /\ key_manager.salt = last.pre.salt
            /\ salt_file = last.pre.file
            /\ ext_lock_app(World).w.km = key_manager
            /\ ext_lock_app(World).w.file = salt_file
    /\ \A p \in Passwords \ {EmptyStr} :
            \E s \in {UnlockLockUnlock(World, p)} :
                s.u1.res = "Ok(true)" =>
                    /\ s.l.res = "Ok"
                    /\ s.l.w.km.key = None
                    /\ s.u2.res = "Ok(true)"
                    /\ s.u2.w.km.key = s.u1.w.km.key
                    /\ s.u2.w.file = s.u1.w.file

\* lock() was called with a key installed, and the unlock that installed
\* it can be repeated.
C16_Witness ==
    /\ last.op = "lock_app"
    /\ IsSome(last.pre.key) /\ IsSome(salt_file)
    /\ key_manager.key = None
    /\ \E p \in Passwords \ {EmptyStr} :
            /\ UnlockLockUnlock(World, p).u2.res = "Ok(true)"
            /\ UnlockLockUnlock(World, p).u2.w.km.key = last.pre.key

\* C11: the key container is guarded by one read/write lock: a store (of
\* derive_key or clear_key) never overlaps another store or a read of
\* get_key / state, reads may hold the lock together whenever no writer
\* holds it, and no reader sees a partially written key.
C11_ReadWriteLock ==
    /\ Cardinality(rwlock.writer) <= 1
    /\ rwlock.writer # {} => rwlock.readers = {}
    /\ rwlock.writer = {t \in Threads : pc[t] \in {"rw_writing", "rw_written"}}
    /\ rwlock.readers = {t \in Threads : pc[t] = "rw_reading"}
    /\ key_manager.key = Some(Torn) => rwlock.writer # {}
    /\ \A t \in Threads : seen[t].key # Some(Torn)
    /\ rwlock.writer = {} => can_read(rwlock)

\* Two threads hold the lock together to read an installed key, one of them
\* having read it with get_key before.
C11_Witness ==
    /\ Cardinality(rwlock.readers) >= 2
    /\ IsSome(key_manager.key)
    /\ \E t \in Threads : seen[t].op = "get_key" /\ seen[t].res = "Ok"

\* The blob encrypt_bytes makes of pt under the key k of a KeyManager.
BlobUnder(k, pt, iv) == encrypt_bytes(Key32(k), pt, iv).data

\* The plaintexts of at most one byte.
ShortPlaintexts == BytesUpTo(1)

\* C17: a blob is decryptable only under the key that was installed when
\* it was encrypted: after a successful change_password, decrypt_bytes under
\* the new key of any blob encrypted under the key installed before the call
\* fails with AeadError and returns no plaintext (no blob is re-encrypted).
C17_OldBlobsUndecryptable ==
    (last.op \in ChangeOps /\ last.res = "Ok" /\ IsSome(last.pre.key)) =>
        /\ IsSome(key_manager.key)
        /\ \A pt \in ShortPlaintexts, iv \in Nonces :
            \E blob \in {BlobUnder(Unwrap(last.pre.key), pt, iv)} :
                /\ decrypt_bytes(Key32(Unwrap(key_manager.key)), blob)
                     = [res |-> "AeadError", data |-> <<>>]
                /\ decrypt_bytes(Key32(Unwrap(last.pre.key)), blob)
                     = [res |-> "Ok", data |-> pt]

\* The password was changed to itself with a key installed, and a blob of
\* the old key is rejected under the new one.
C17_Witness ==
    /\ last.op \in ChangeOps /\ last.res = "Ok" /\ IsSome(last.pre.key)
    /\ last.pw = last.npw
    /\ PasswordOf(Unwrap(last.pre.key)) = last.pw
    /\ \E pt \in ShortPlaintexts \ {<<>>}, iv \in Nonces :
        decrypt_bytes(Key32(Unwrap(key_manager.key)),
                      BlobUnder(Unwrap(last.pre.key), pt, iv)).res
            = "AeadError"

\* C18: for every 32-byte key and every plaintext, the empty one included,
\* decrypt_bytes(key, encrypt_bytes(key, plaintext)) succeeds and returns
\* exactly plaintext, whatever nonce was drawn.
C18_RoundTrip ==
    /\ (codec.op = "encrypt_bytes" /\ new_from_slice(codec.key)) =>
            codec.res = "Ok"
    /\ (codec.op = "decrypt_bytes" /\ codec.at = 0 /\ ~codec.cut
        /\ codec.dkey = codec.key) =>
            /\ codec.res = "Ok"
            /\ codec.out = codec.pt

C18_Witness ==
    /\ codec.op = "decrypt_bytes" /\ codec.at = 0 /\ ~codec.cut
    /\ codec.dkey = codec.key
    /\ codec.pt # <<>> /\ codec.out = codec.pt
    /\ SubSeq(codec.blob, IV_SIZE + 1, IV_SIZE + Len(codec.pt)) # codec.pt

\* C19: for every key, plaintext and AAD,
\* decrypt_bytes_with_aad(key, encrypt_bytes_with_aad(key, pt, aad), aad)
\* returns pt, and decrypting the same blob with any other AAD fails with
\* AeadError.
C19_AadBound ==
    (codec.op = "decrypt_bytes_with_aad" /\ ~codec.cut
     /\ codec.dkey = codec.key) =>
        IF codec.daad = codec.aad
        THEN codec.res = "Ok" /\ codec.out = codec.pt
        ELSE codec.res = "AeadError" /\ codec.out = <<>>

C19_Witness ==
    /\ codec.op = "decrypt_bytes_with_aad" /\ codec.dkey = codec.key
    /\ codec.daad # codec.aad /\ codec.aad # <<>> /\ codec.daad # <<>>
    /\ codec.res = "AeadError"

\* C20: changing any single byte at any position of an encrypted blob
\* (nonce, ciphertext or tag) makes decrypt_bytes under the original key
\* fail with AeadError; no plaintext is returned.
C20_TamperDetected ==
    (codec.op = "decrypt_bytes" /\ codec.at # 0 /\ codec.dkey = codec.key) =>
        /\ codec.res = "AeadError"
        /\ codec.out = <<>>

\* A byte of the ciphertext proper was changed and the blob rejected.
C20_Witness ==
    /\ codec.op = "decrypt_bytes" /\ codec.at > IV_SIZE
    /\ codec.at <= IV_SIZE + Len(codec.pt)
    /\ codec.dkey = codec.key
    /\ codec.res = "AeadError"

DecryptOps == {"decrypt_bytes", "decrypt_bytes_with_aad"}
EncryptOps == {"encrypt_bytes", "encrypt_bytes_with_aad"}

\* C21: decrypt_bytes and decrypt_bytes_with_aad answer "Data too short"
\* exactly for the blobs of 0..12 bytes, whatever the key given (a key of
\* the wrong length included), and that value is not AeadError.
C21_DataTooShort ==
    /\ DataTooShort # "AeadError"
    /\ codec.op \in DecryptOps =>
           (Len(codec.blob) <= IV_SIZE <=> codec.res = DataTooShort)

\* A blob cut to exactly 12 bytes and given with a key that is not 32
\* bytes long was answered "Data too short".
C21_Witness ==
    /\ codec.op \in DecryptOps /\ codec.cut
    /\ Len(codec.blob) = IV_SIZE
    /\ ~new_from_slice(codec.dkey)
    /\ codec.res = DataTooShort

\* C22: decrypt_field under the key of encrypt_field returns the string;
\* under another 32-byte key it fails with AeadError; under any other key
\* it never answers "Invalid UTF-8", which is only said of bytes that
\* decrypt_bytes authenticated and returned.
C22_FieldErrors ==
    codec.op = "decrypt_field" =>
        /\ (codec.enc = "encrypt_field" /\ codec.dkey = codec.key) =>
               codec.res = "Ok" /\ codec.out = codec.pt
        /\ codec.dkey # codec.key =>
               /\ codec.res \notin {InvalidUtf8, "Ok"}
               /\ new_from_slice(codec.dkey) => codec.res = "AeadError"
        /\ codec.res = InvalidUtf8 =>
               LET d == cipher_decrypt(codec.dkey,
                            SubSeq(codec.blob, 1, IV_SIZE),
                            SubSeq(codec.blob, IV_SIZE + 1, Len(codec.blob)),
                            <<>>)
               IN  d.ok /\ ~IsUtf8(d.msg)

\* A string with a two-byte character, encrypted by encrypt_field, was
\* read under another 32-byte key and refused as not authentic.
C22_Witness ==
    /\ codec.op = "decrypt_field" /\ codec.enc = "encrypt_field"
    /\ codec.pt = <<195, 164>>
    /\ codec.dkey # codec.key /\ new_from_slice(codec.dkey)
    /\ codec.res = "AeadError"

\* C23: a blob returned by encrypt_bytes / encrypt_bytes_with_aad is the
\* nonce of the call, then the ciphertext, then the 16-byte tag, and nothing
\* else: len(plaintext) + 28 bytes; decrypt reads it the same way, the
\* first 12 bytes as the nonce and the rest as ciphertext with tag.
C23_BlobLayout ==
    /\ (codec.op \in EncryptOps /\ codec.res = "Ok") =>
           /\ Len(codec.blob) = Len(codec.pt) + IV_SIZE + TAG_SIZE
           /\ SubSeq(codec.blob, 1, IV_SIZE) = codec.iv
           /\ SubSeq(codec.blob, IV_SIZE + 1, Len(codec.blob))
                  = cipher_encrypt(codec.key, codec.iv, codec.pt, codec.aad)
    /\ (codec.op \in DecryptOps /\ codec.res = "Ok") =>
           LET d == cipher_decrypt(codec.dkey,
                                   SubSeq(codec.blob, 1, IV_SIZE),
                                   SubSeq(codec.blob, IV_SIZE + 1,
                                          Len(codec.blob)),
                                   codec.daad)
           IN  d.ok /\ d.msg = codec.out

\* encrypt_bytes returned a blob for a plaintext of MaxLen bytes under a
\* nonce that is not all zeros.
C23_Witness ==
    /\ codec.op = "encrypt_bytes" /\ codec.res = "Ok"
    /\ Len(codec.pt) = MaxLen
    /\ codec.iv # [i \in 1..IV_SIZE |-> ZeroBytes]
    /\ Len(codec.blob) = MaxLen + IV_SIZE + TAG_SIZE

\* C24 (as stated): no two blobs made under the same key carry the same
\* nonce.
C24_NonceNeverReused ==
    \A i, j \in 1..Len(codec.ivs) : i # j => codec.ivs[i] # codec.ivs[j]

\* C24: every call fills a nonce of its own from the random generator and
\* the blob carries that nonce; nothing is remembered between the calls, so
\* two blobs under a key carry the same nonce exactly when the generator
\* gave the same 12 bytes twice.
C24_NonceDrawnPerCall ==
    (codec.op \in EncryptOps /\ codec.res = "Ok") =>
        /\ Len(codec.ivs) >= 1
        /\ SubSeq(codec.blob, 1, IV_SIZE) = codec.ivs[Len(codec.ivs)]
        /\ codec.iv = codec.ivs[Len(codec.ivs)]

\* Two blobs were made with associated data under one key, and the
\* generator gave two different nonces.
C24_Witness ==
    /\ codec.op = "encrypt_bytes_with_aad" /\ codec.res = "Ok"
    /\ Len(codec.ivs) = MaxCalls
    /\ codec.ivs[1] # codec.ivs[MaxCalls]

FileOps == {"encrypt_file", "decrypt_file", "encrypt_content_to_file",
            "decrypt_file_to_memory"}
ReadingOps == {"encrypt_file", "decrypt_file", "decrypt_file_to_memory"}
WritingOps == {"encrypt_file", "decrypt_file", "encrypt_content_to_file"}

\* The file the last helper call reads.
InputOf(op) == IF op = "encrypt_file" THEN "input" ELSE "encrypted"

\* fs::read of the last helper call failed: no file, or the read fault.
ReadFailed ==
    /\ fstate.op \in ReadingOps
    /\ fstate.pre[InputOf(fstate.op)] = None \/ fstate.fault = "read"

\* C25: a helper returns FileOperation exactly when its fs::read or its
\* fs::write failed: always when the input is missing or unreadable, and
\* when the write it reached failed; it returns AeadError only when it read
\* the file and decrypt_bytes refused what was read; neither error stands
\* for the other.
C25_FileErrorsDistinct ==
    fstate.op \in FileOps =>
        /\ fstate.res = "FileOperation" <=> fstate.at \in {"read", "write"}
        /\ fstate.at = "read" <=> ReadFailed
        /\ fstate.at = "write" <=>
               /\ fstate.op \in WritingOps /\ ~ReadFailed
               /\ fstate.fault \in {"open", "write"}
               /\ fstate.op = "decrypt_file" =>
                      decrypt_bytes(fstate.dkey,
                          Unwrap(fstate.pre["encrypted"])).res = "Ok"
               /\ fstate.op # "decrypt_file" => new_from_slice(fstate.key)
        /\ fstate.res = "AeadError" =>
               /\ fstate.op \in {"decrypt_file", "decrypt_file_to_memory"}
               /\ ~ReadFailed /\ fstate.at = "codec"
               /\ decrypt_bytes(fstate.dkey,
                       Unwrap(fstate.pre["encrypted"])).res = "AeadError"

\* decrypt_file_to_memory read a file that had been changed since it was
\* written and answered AeadError under the right key.
C25_Witness ==
    /\ fstate.op = "decrypt_file_to_memory" /\ fstate.res = "AeadError"
    /\ fstate.dkey = fstate.key /\ fstate.sealed = None
    /\ Len(Unwrap(fstate.pre["encrypted"])) > IV_SIZE + TAG_SIZE

\* C26: after encrypt_file(key, input, encrypted), decrypt_file(key,
\* encrypted, decrypted) with no fault leaves in the decrypted file exactly
\* the content of the input file, which is as it was, and the encrypted
\* file is not that content; decrypt_file_to_memory after
\* encrypt_content_to_file returns the content; every helper changes no
\* file but the one it writes.
C26_FileRoundTrip ==
    /\ (fstate.op = "encrypt_file" /\ fstate.res = "Ok") =>
           /\ fstate.files["input"] = fstate.pre["input"]
           /\ fstate.files["decrypted"] = fstate.pre["decrypted"]
           /\ IsSome(fstate.files["encrypted"])
           /\ fstate.files["encrypted"] # fstate.files["input"]
           /\ fstate.sealed = Some([by |-> "encrypt_file",
                                    pt |-> Unwrap(fstate.files["input"])])
    /\ (fstate.op = "decrypt_file" /\ IsSome(fstate.sealed)
        /\ fstate.dkey = fstate.key /\ fstate.fault = "ok") =>
           /\ fstate.res = "Ok"
           /\ fstate.files["decrypted"] = Some(Unwrap(fstate.sealed).pt)
           /\ fstate.files["input"] = fstate.pre["input"]
           /\ fstate.files["encrypted"] = fstate.pre["encrypted"]
    /\ (fstate.op = "decrypt_file_to_memory" /\ IsSome(fstate.sealed)
        /\ fstate.dkey = fstate.key /\ fstate.fault = "ok") =>
           /\ fstate.res = "Ok"
           /\ fstate.mem = Unwrap(fstate.sealed).pt
           /\ fstate.files = fstate.pre

\* A file of one byte went through encrypt_file and decrypt_file and came
\* out the same, the encrypted file being another thing.
C26_Witness ==
    /\ fstate.op = "decrypt_file" /\ fstate.res = "Ok"
    /\ fstate.sealed = Some([by |-> "encrypt_file", pt |-> <<1>>])
    /\ fstate.files["input"] = Some(<<1>>)
    /\ fstate.files["decrypted"] = fstate.files["input"]
    /\ fstate.files["encrypted"] # fstate.files["input"]

\* C27: at the salt-persistence boundary a missing salt file is 'no salt'
\* and not an error, and a failure while saving or loading the salt, the
\* creation of the parent directory included, is reported as SaltSaveFailed
\* or SaltLoadFailed respectively.
C27_SaltErrorsClassified ==
    /\ (last.op \in UnlockOps /\ Accepted /\ last.pre.file = None
        /\ last.f.load = "ok") => last.at # "load_salt"
    /\ (last.at = "load_salt" /\ last.f.load # "path") =>
            last.res = "SaltLoadFailed"
    /\ (last.at = "save_salt" /\ last.f.save # "path") =>
            last.res = "SaltSaveFailed"

\* C28: in every state with no coordinator operation in progress, an
\* installed key is derive(p, s) for some password p, s being both the
\* in-memory salt and the persisted salt.
C28_SaltConsistent ==
    IsSome(key_manager.key) =>
        /\ IsSome(key_manager.salt)
        /\ key_manager.salt = salt_file
        /\ SaltOf(Unwrap(key_manager.key)) = Unwrap(key_manager.salt)

\* C29: a change_password call that returns an error leaves the key
\* container as it was before the call: the same state and the same key.
C29_FailedChangeKeepsKey ==
    (last.op \in ChangeOps /\ last.res # "Ok") =>
        key_manager.key = last.pre.key

\* C30: an unlock call that returns SaltLoadFailed, SaltSaveFailed or a
\* derivation error leaves the installed key, the in-memory salt and the
\* persisted salt as before the call.
C30_FailedUnlockChangesNothing ==
    (last.op \in UnlockOps
     /\ last.res \in {"SaltLoadFailed", "SaltSaveFailed", "KeyDerivation"}) =>
        /\ key_manager.key = last.pre.key
        /\ key_manager.salt = last.pre.salt
        /\ salt_file = last.pre.file

\* s is the first bytes of d, or all of it.
IsPrefix(s, d) == Len(s) <= Len(d) /\ s = SubSeq(d, 1, Len(s))

\* C31: decrypt_file touches the output file only once decrypt_bytes has
\* authenticated what it read: when the input is missing or unreadable, or
\* decrypt_bytes fails (AeadError, data too short, a key of the wrong
\* length), every file, the output included, is as it was before the call;
\* and whenever the call did change the output, what it read was authentic
\* under the key and the output holds that plaintext (its first bytes when
\* fs::write failed half way), never anything else.
C31_OutputOnlyAfterAuthentication ==
    fstate.op = "decrypt_file" =>
        /\ (fstate.res # "Ok" /\ fstate.at # "write") =>
               fstate.files = fstate.pre
        /\ fstate.files["decrypted"] # fstate.pre["decrypted"] =>
               /\ IsSome(fstate.pre["encrypted"])
               /\ LET d == decrypt_bytes(fstate.dkey,
                                         Unwrap(fstate.pre["encrypted"]))
                  IN  /\ d.res = "Ok"
                      /\ IsPrefix(Unwrap(fstate.files["decrypted"]), d.data)
                      /\ fstate.res = "Ok" =>
                             fstate.files["decrypted"] = Some(d.data)
        /\ fstate.files["input"] = fstate.pre["input"]
        /\ fstate.files["encrypted"] = fstate.pre["encrypted"]

\* A decrypted file written by an earlier call was there when the
\* encrypted file, changed since, was refused: it still holds its byte.
C31_Witness ==
    /\ fstate.op = "decrypt_file" /\ fstate.res = "AeadError"
    /\ fstate.dkey = fstate.key /\ fstate.sealed = None
    /\ fstate.pre["decrypted"] = Some(<<1>>)
    /\ fstate.files["decrypted"] = Some(<<1>>)

\* C32: derive_key on a manager without a salt leaves a salt not produced
\* before as the manager's salt and, when it succeeds, the key derived with
\* that salt; on a manager with a salt it leaves the salt as it was, so a
\* derive_key with the password of the key in place installs the same key
\* again.
C32_DeriveKeyKeepsSalt ==
    last.op = "derive_key" =>
        /\ IsSome(key_manager.salt)
        /\ last.pre.salt = None =>
               /\ Unwrap(key_manager.salt) = rng
               /\ Unwrap(key_manager.salt) \in Salts
        /\ IsSome(last.pre.salt) => key_manager.salt = last.pre.salt
        /\ last.res = "Ok" =>
               key_manager.key
                   = Some(Argon2id(last.pw, Unwrap(key_manager.salt)))
        /\ (last.res = "Ok" /\ IsSome(last.pre.key)
            /\ IsSome(last.pre.salt)
            /\ SaltOf(Unwrap(last.pre.key)) = Unwrap(last.pre.salt)
            /\ PasswordOf(Unwrap(last.pre.key)) = last.pw) =>
               key_manager.key = last.pre.key

\* derive_key was called again with the password of the key in place and
\* installed that key under the salt the first call had generated.
C32_Witness ==
    /\ last.op = "derive_key" /\ last.res = "Ok"
    /\ last.pw # EmptyStr
    /\ IsSome(last.pre.key) /\ key_manager.key = last.pre.key
    /\ IsSome(last.pre.salt) /\ key_manager.salt = last.pre.salt
    /\ PasswordOf(Unwrap(key_manager.key)) = last.pw

====
